---------------------------- MODULE Spec2Model ----------------------------
(***************************************************************************)
(* Model of ursa's Graph_manager (src/ursa/local_manager.py): the graph    *)
(* registry, the transaction counter, the per-graph stores (ray actors),   *)
(* their mailboxes, and the detached back-edge tasks.                      *)
(*                                                                         *)
(* A manager method is an operator from a world (the manager's fields, the *)
(* stores, their mailboxes, the launched tasks) to the world it leaves;    *)
(* the Call* actions apply one method to the current state.  A store       *)
(* applies the messages of its mailbox one at a time (StoreStep), a task   *)
(* sends its actor calls one at a time (TaskStep).                         *)
(*                                                                         *)
(* Keys are Python strings, modelled as tuples of one-character strings,   *)
(* so that iterating over a string (for c in "fk") yields its characters.  *)
(***************************************************************************)
EXTENDS Integers, Sequences, FiniteSets, TLC

VARIABLES graph_dict,      \* Graph_manager.graph_dict: graph id -> store handle
          transaction_id,  \* Graph_manager._transaction_id
          stores,          \* store handle -> the state of that ug.Graph actor
          mailbox,         \* store handle -> the actor calls not yet executed
          tasks,           \* the detached ray tasks that have not finished
          last_call,       \* history: the last manager call and what it raised
          reading,         \* the select_* call the caller is blocked in, or NoRead
          once,            \* history: the edges before a repeated add_* call
          n_calls,         \* history: the mutating manager calls made so far
          bare_foreign,    \* history: some insert passed a bare key as a foreign value
          applied          \* history: store handle -> the writes it has executed

vars == <<graph_dict, transaction_id, stores, mailbox, tasks, last_call, reading, once,
          n_calls, bare_foreign, applied>>

-----------------------------------------------------------------------------
(* Bounds of the exploration *)

\* manager calls explored from a fresh manager
MaxCalls == 2

\* manager calls explored when the caller also reads
MaxReadCalls == 1

\* manager calls explored when only graphs and edges are added
MaxAddCalls == 3

-----------------------------------------------------------------------------
(* Values *)

K == <<"k">>
FK == <<"f", "k">>

\* the keys callers pass
Keys == {K, FK}

G == "G"
H == "H"
Empty == ""
\* Python's None, as a graph id
None == "<None>"

\* the graph ids callers pass
GraphIds == {Empty, G, H}

\* a foreign_keys argument that is a dict: its items, in the dict's order
Dict(items) == [is_dict |-> TRUE, items |-> items]

\* a foreign_keys argument that is not a dict ("Bad input" in the tests)
NotADict == [is_dict |-> FALSE, items |-> <<>>]

\* the caller is in no read
NoRead ==
    [status |-> "none", op |-> "none", graph_id |-> "", key |-> <<>>, immediate |-> FALSE,
     raised |-> "ok", found |-> FALSE, value |-> {}]


\* an argument that is one bare key
Scalar(k) == [scalar |-> TRUE, keys |-> {k}]

\* an argument that is a collection (set or list) of keys
Coll(S) == [scalar |-> FALSE, keys |-> S]

\* a manager call, as the history keeps it
Call(op, graph_id, key, local_keys, foreign_keys, other_graph_id, keys) ==
    [op |-> op, graph_id |-> graph_id, key |-> key, local_keys |-> local_keys,
     foreign_keys |-> foreign_keys, other_graph_id |-> other_graph_id, keys |-> keys,
     raised |-> "ok", read_since |-> FALSE]

NoCall == Call("none", Empty, K, Coll({}), Dict(<<>>), Empty, {})

NoSnapshot == [taken |-> FALSE, edges |-> <<>>]


-----------------------------------------------------------------------------
(* Python dicts and argument conversions *)

\* d[k] = v on a dict
Put(d, k, v) == [x \in DOMAIN d \cup {k} |-> IF x = k THEN v ELSE d[x]]

\* d.get(k, default)
Get(d, k, default) == IF k \in DOMAIN d THEN d[k] ELSE default

\* del d[k]
Del(d, k) == [x \in DOMAIN d \ {k} |-> d[x]]

\* the empty dict
EmptyDict == <<>>

\* iterating over a Python str yields its characters, each a str of length 1
IterStr(s) == {<<s[i]>> : i \in 1..Len(s)}

\* "for back_edge_key in f_keys": what iterating over an argument yields
Iterate(v) == IF v.scalar THEN UNION {IterStr(k) : k \in v.keys} ELSE v.keys

\* "try: set([local_keys]) except TypeError: set(local_keys)": a str is hashable
\* and is wrapped, a set or list is not and is converted
NormalizeLocalKeys(v) == v.keys

\* "not graph_id or graph_id == ''"
Falsy(graph_id) == graph_id = None \/ graph_id = Empty

-----------------------------------------------------------------------------
(* The store, ug.Graph: one actor per graph.  Its code is not part of the   *)
(* sources at hand; the operations follow the store contract of the        *)
(* specification (section 4.2).                                            *)

\* ug.Graph.remote(transaction_id): an empty store
NewGraph(tid) ==
    [stamp |-> tid, rows |-> EmptyDict, local |-> EmptyDict, foreign |-> EmptyDict]

\* what the store keeps for a local_keys or foreign-key value: a bare key is a
\* singleton (select_local_keys == set(["Key1"]) after insert(.., "Key1"))
AsKeySet(v) == v.keys

\* foreign_keys merged into one key's foreign map: each named bucket is unioned
RECURSIVE MergeForeign(_, _)
MergeForeign(fmap, foreign_keys) ==
    IF foreign_keys = <<>> THEN fmap
    ELSE LET e == Head(foreign_keys)
         IN MergeForeign(Put(fmap, e.graph, Get(fmap, e.graph, {}) \cup AsKeySet(e.value)),
                         Tail(foreign_keys))

\* Graph.insert: creates or overwrites the row, sets the local edge set to
\* local_keys, merges foreign_keys into the foreign map
GraphInsert(s, m) ==
    [s EXCEPT !.rows = Put(@, m.key, m.node),
              !.local = Put(@, m.key, AsKeySet(m.local_keys)),
              !.foreign = Put(@, m.key, MergeForeign(Get(@, m.key, EmptyDict), m.foreign_keys))]

\* Graph.delete: removes the row; the edges stay
GraphDelete(s, m) == [s EXCEPT !.rows = Del(@, m.key)]

\* Graph.add_local_keys: unions keys into the key's local edge set
GraphAddLocalKeys(s, m) ==
    [s EXCEPT !.local = Put(@, m.key, Get(@, m.key, {}) \cup m.keys)]

\* Graph.add_foreign_keys: unions keys into the bucket of other_graph_id
GraphAddForeignKeys(s, m) ==
    LET fmap == Get(s.foreign, m.key, EmptyDict)
    IN [s EXCEPT !.foreign =
            Put(@, m.key, Put(fmap, m.other_graph_id,
                              Get(fmap, m.other_graph_id, {}) \cup m.keys))]

\* one actor call applied to the store's state; the reads change nothing
Apply(s, m) ==
    CASE m.op = "insert" -> GraphInsert(s, m)
      [] m.op = "delete" -> GraphDelete(s, m)
      [] m.op = "add_local_keys" -> GraphAddLocalKeys(s, m)
      [] m.op = "add_foreign_keys" -> GraphAddForeignKeys(s, m)
      [] OTHER -> s

\* what a read returns: <<found, value>>; a key with no entry is KeyNotFound
ReadValue(s, m) ==
    CASE m.op = "row_exists" -> <<TRUE, m.key \in DOMAIN s.rows>>
      [] m.op = "select_row" ->
            IF m.key \in DOMAIN s.rows THEN <<TRUE, s.rows[m.key]>> ELSE <<FALSE, {}>>
      [] m.op = "select_local_keys" ->
            IF m.key \in DOMAIN s.local THEN <<TRUE, s.local[m.key]>> ELSE <<FALSE, {}>>
      [] m.op = "select_foreign_keys" ->
            IF m.key \in DOMAIN s.foreign THEN <<TRUE, s.foreign[m.key]>> ELSE <<FALSE, {}>>

\* LocalEdgeSet(G, key) of a store state, empty when the key has no entry
LocalEdgeSet(s, key) == Get(s.local, key, {})

\* ForeignEdgeMap(G, key)[other] of a store state
ForeignBucket(s, key, other) == Get(Get(s.foreign, key, EmptyDict), other, {})

-----------------------------------------------------------------------------
(* The manager's methods, as operators on a world *)

World ==
    [graph_dict |-> graph_dict, transaction_id |-> transaction_id,
     stores |-> stores, mailbox |-> mailbox, tasks |-> tasks, raised |-> "ok"]

\* raise ...: the method ends here
Raise(w, error) == [w EXCEPT !.raised = error]

\* actor.method.remote(...): the call joins the actor's mailbox
Send(w, graph, m) == [w EXCEPT !.mailbox[graph] = Append(@, m)]

\* task.remote(...): a detached task; one that has nothing to iterate over
\* sends nothing and is not tracked
Launch(w, t) == IF t.keys = {} THEN w ELSE [w EXCEPT !.tasks = @ \cup {t}]

\* _add_local_key_back_edges.remote(transaction_id, graph, key, local_keys)
add_local_key_back_edges(w, tid, graph, key, local_keys) ==
    Launch(w, [kind |-> "local", tid |-> tid, graph |-> graph, key |-> key,
               graph_id |-> Empty, keys |-> local_keys])

\* _add_foreign_key_back_edges.remote(transaction_id, graph, key, graph_id, f_keys)
add_foreign_key_back_edges(w, tid, graph, key, graph_id, f_keys) ==
    Launch(w, [kind |-> "foreign", tid |-> tid, graph |-> graph, key |-> key,
               graph_id |-> graph_id, keys |-> f_keys])

\* create_graph testing "graph_id is None" only: the empty name is accepted
create_graph_naming_empty(w, graph_id, new_transaction) ==
    LET w1 == IF new_transaction THEN [w EXCEPT !.transaction_id = @ + 1] ELSE w
    IN IF graph_id = None THEN Raise(w1, "InvalidName")
       ELSE IF graph_id \in DOMAIN w1.graph_dict THEN Raise(w1, "DuplicateName")
       ELSE [w1 EXCEPT !.graph_dict = Put(@, graph_id, Len(w1.stores) + 1),
                       !.stores = Append(@, NewGraph(w1.transaction_id)),
                       !.mailbox = Append(@, <<>>)]

\* create_graph without its duplicate check: a registered name is bound anew
create_graph_rebinding(w, graph_id, new_transaction) ==
    LET w1 == IF new_transaction THEN [w EXCEPT !.transaction_id = @ + 1] ELSE w
    IN IF Falsy(graph_id) THEN Raise(w1, "InvalidName")
       ELSE [w1 EXCEPT !.graph_dict = Put(@, graph_id, Len(w1.stores) + 1),
                       !.stores = Append(@, NewGraph(w1.transaction_id)),
                       !.mailbox = Append(@, <<>>)]

\* Graph_manager.create_graph
create_graph(w, graph_id, new_transaction) ==
    LET w1 == IF new_transaction THEN [w EXCEPT !.transaction_id = @ + 1] ELSE w
    IN IF Falsy(graph_id) THEN Raise(w1, "InvalidName")
       ELSE IF graph_id \in DOMAIN w1.graph_dict THEN Raise(w1, "DuplicateName")
       ELSE [w1 EXCEPT !.graph_dict = Put(@, graph_id, Len(w1.stores) + 1),
                       !.stores = Append(@, NewGraph(w1.transaction_id)),
                       !.mailbox = Append(@, <<>>)]

\* _create_if_not_exists calling create_graph(graph_id), new_transaction left
\* at its default True
create_if_not_exists_new_transaction(w, graph_id) ==
    IF graph_id \notin DOMAIN w.graph_dict THEN create_graph(w, graph_id, TRUE) ELSE w

\* Graph_manager._create_if_not_exists
create_if_not_exists(w, graph_id) ==
    IF graph_id \notin DOMAIN w.graph_dict THEN create_graph(w, graph_id, FALSE) ELSE w

\* the loop "for other_graph_id in foreign_keys" of insert, in dict order
RECURSIVE insert_foreign_loop(_, _, _, _)
insert_foreign_loop(w, graph_id, key, foreign_keys) ==
    IF foreign_keys = <<>> THEN w
    ELSE LET other_graph_id == Head(foreign_keys).graph
             w1 == create_if_not_exists(w, other_graph_id)
         IN IF w1.raised # "ok" THEN w1
            ELSE insert_foreign_loop(
                     add_foreign_key_back_edges(w1, w1.transaction_id,
                                                w1.graph_dict[other_graph_id], key, graph_id,
                                                Iterate(Head(foreign_keys).value)),
                     graph_id, key, Tail(foreign_keys))

\* insert advancing the transaction id only after it forwarded the row
insert_advancing_late(w, graph_id, key, node, local_keys, foreign_keys) ==
    IF ~foreign_keys.is_dict
    THEN Raise([w EXCEPT !.transaction_id = @ + 1], "InvalidArgument")
    ELSE LET w2 == create_if_not_exists(w, graph_id)
         IN IF w2.raised # "ok" THEN [w2 EXCEPT !.transaction_id = @ + 1]
            ELSE LET graph == w2.graph_dict[graph_id]
                     w3 == Send(w2, graph,
                                [op |-> "insert", from |-> "manager",
                                 tid |-> w2.transaction_id, key |-> key, node |-> node,
                                 local_keys |-> local_keys,
                                 foreign_keys |-> foreign_keys.items])
                     w4 == [w3 EXCEPT !.transaction_id = @ + 1]
                     w5 == add_local_key_back_edges(w4, w4.transaction_id, graph, key,
                                                    NormalizeLocalKeys(local_keys))
                 IN insert_foreign_loop(w5, graph_id, key, foreign_keys.items)

\* insert checking the type of foreign_keys only after _create_if_not_exists
insert_checking_late(w, graph_id, key, node, local_keys, foreign_keys) ==
    LET w1 == [w EXCEPT !.transaction_id = @ + 1]
        w2 == create_if_not_exists(w1, graph_id)
    IN IF w2.raised # "ok" THEN w2
       ELSE IF ~foreign_keys.is_dict THEN Raise(w2, "InvalidArgument")
       ELSE LET graph == w2.graph_dict[graph_id]
                w3 == Send(w2, graph,
                           [op |-> "insert", from |-> "manager",
                            tid |-> w2.transaction_id, key |-> key, node |-> node,
                            local_keys |-> local_keys,
                            foreign_keys |-> foreign_keys.items])
                w4 == add_local_key_back_edges(w3, w3.transaction_id, graph, key,
                                               NormalizeLocalKeys(local_keys))
            IN insert_foreign_loop(w4, graph_id, key, foreign_keys.items)

\* Graph_manager.insert
insert(w, graph_id, key, node, local_keys, foreign_keys) ==
    LET w1 == [w EXCEPT !.transaction_id = @ + 1]
    IN IF ~foreign_keys.is_dict THEN Raise(w1, "InvalidArgument")
       ELSE LET w2 == create_if_not_exists(w1, graph_id)
            IN IF w2.raised # "ok" THEN w2
               ELSE LET graph == w2.graph_dict[graph_id]
                        w3 == Send(w2, graph,
                                   [op |-> "insert", from |-> "manager",
                                    tid |-> w2.transaction_id, key |-> key, node |-> node,
                                    local_keys |-> local_keys,
                                    foreign_keys |-> foreign_keys.items])
                        w4 == add_local_key_back_edges(w3, w3.transaction_id, graph, key,
                                                       NormalizeLocalKeys(local_keys))
                    IN insert_foreign_loop(w4, graph_id, key, foreign_keys.items)

\* delete_row without "self._transaction_id += 1": it reuses the last id
delete_row_not_advancing(w, graph_id, key) ==
    IF graph_id \notin DOMAIN w.graph_dict THEN Raise(w, "KeyError")
    ELSE Send(w, w.graph_dict[graph_id],
              [op |-> "delete", from |-> "manager", tid |-> w.transaction_id, key |-> key])

\* delete_row ending as add_local_keys does, with a back-edge task for the key
delete_row_launching(w, graph_id, key) ==
    LET w1 == [w EXCEPT !.transaction_id = @ + 1]
    IN IF graph_id \notin DOMAIN w1.graph_dict THEN Raise(w1, "KeyError")
       ELSE LET graph == w1.graph_dict[graph_id]
                w2 == Send(w1, graph,
                           [op |-> "delete", from |-> "manager",
                            tid |-> w1.transaction_id, key |-> key])
            IN add_local_key_back_edges(w2, w2.transaction_id, graph, key, {key})

\* Graph_manager.delete_row
delete_row(w, graph_id, key) ==
    LET w1 == [w EXCEPT !.transaction_id = @ + 1]
    IN IF graph_id \notin DOMAIN w1.graph_dict THEN Raise(w1, "KeyError")
       ELSE Send(w1, w1.graph_dict[graph_id],
                 [op |-> "delete", from |-> "manager", tid |-> w1.transaction_id, key |-> key])

\* add_local_keys passing (key, transaction_id, *local_keys), the argument order
\* of Graph.insert: the store takes the transaction id for the key
add_local_keys_key_first(w, graph_id, key, local_keys) ==
    LET w1 == [w EXCEPT !.transaction_id = @ + 1]
    IN IF graph_id \notin DOMAIN w1.graph_dict THEN Raise(w1, "KeyError")
       ELSE LET graph == w1.graph_dict[graph_id]
                w2 == Send(w1, graph,
                           [op |-> "add_local_keys", from |-> "manager",
                            tid |-> key, key |-> <<ToString(w1.transaction_id)>>,
                            keys |-> local_keys])
            IN add_local_key_back_edges(w2, w2.transaction_id, graph, key, local_keys)

\* Graph_manager.add_local_keys
add_local_keys(w, graph_id, key, local_keys) ==
    LET w1 == [w EXCEPT !.transaction_id = @ + 1]
    IN IF graph_id \notin DOMAIN w1.graph_dict THEN Raise(w1, "KeyError")
       ELSE LET graph == w1.graph_dict[graph_id]
                w2 == Send(w1, graph,
                           [op |-> "add_local_keys", from |-> "manager",
                            tid |-> w1.transaction_id, key |-> key, keys |-> local_keys])
            IN add_local_key_back_edges(w2, w2.transaction_id, graph, key, local_keys)

\* Graph_manager.add_foreign_keys
add_foreign_keys(w, graph_id, key, other_graph_id, foreign_keys) ==
    LET w1 == [w EXCEPT !.transaction_id = @ + 1]
    IN IF graph_id \notin DOMAIN w1.graph_dict THEN Raise(w1, "KeyError")
       ELSE LET w2 == Send(w1, w1.graph_dict[graph_id],
                           [op |-> "add_foreign_keys", from |-> "manager",
                            tid |-> w1.transaction_id, key |-> key,
                            other_graph_id |-> other_graph_id, keys |-> foreign_keys])
                w3 == create_if_not_exists(w2, other_graph_id)
            IN IF w3.raised # "ok" THEN w3
               ELSE add_foreign_key_back_edges(w3, w3.transaction_id,
                                               w3.graph_dict[other_graph_id], key, graph_id,
                                               foreign_keys)

-----------------------------------------------------------------------------
(* What callers pass *)

Nodes == {"v"}

\* the local_keys of insert: the default set(), a bare key, a collection
LocalKeyArgs == {Coll({})} \cup {Scalar(k) : k \in Keys} \cup {Coll({k}) : k \in Keys}

\* one entry of a foreign_keys dict
Item(graph_id, value) == [graph |-> graph_id, value |-> value]

\* the foreign_keys of insert: not a dict, one entry whose value is a bare key
\* or a collection, and two entries of which one names the empty graph id
ForeignKeyArgs ==
    {NotADict,
     Dict(<<Item(H, Scalar(FK))>>), Dict(<<Item(H, Scalar(K))>>),
     Dict(<<Item(H, Coll({FK}))>>), Dict(<<Item(Empty, Coll({FK}))>>),
     Dict(<<Item(Empty, Coll({FK})), Item(H, Coll({FK}))>>),
     Dict(<<Item(H, Coll({FK})), Item(Empty, Coll({FK}))>>)}

InsertArg(graph_id, key, local_keys, foreign_keys) ==
    [graph_id |-> graph_id, key |-> key, local_keys |-> local_keys,
     foreign_keys |-> foreign_keys]

\* the calls of insert: rows of G with local keys, a row of G with foreign
\* keys, a row of H that points back at G, a row of the empty graph id
InsertArgs ==
    {InsertArg(G, k, lk, Dict(<<>>)) : k \in Keys, lk \in LocalKeyArgs}
    \cup {InsertArg(G, K, Coll({}), fk) : fk \in ForeignKeyArgs}
    \cup {InsertArg(H, FK, Coll({}), Dict(<<Item(G, Coll({K}))>>)),
          InsertArg(Empty, K, Coll({}), Dict(<<>>))}

\* the calls of delete_row: <<graph_id, key>>
DeleteRowArgs == {<<G, K>>, <<G, FK>>, <<H, FK>>}

\* the calls of add_local_keys: <<graph_id, key, keys>>
AddLocalKeysArgs ==
    {<<G, K, {FK}>>, <<G, FK, {K}>>, <<G, K, {K, FK}>>, <<H, FK, {K}>>}

\* the calls of add_foreign_keys: <<graph_id, key, other_graph_id, keys>>
AddForeignKeysArgs ==
    {<<G, K, H, {FK}>>, <<G, K, Empty, {FK}>>, <<G, K, G, {FK}>>, <<H, FK, G, {K}>>}

-----------------------------------------------------------------------------
(* The state *)

Init ==
    /\ graph_dict = EmptyDict
    /\ transaction_id = 0
    /\ stores = <<>>
    /\ mailbox = <<>>
    /\ tasks = {}
    /\ last_call = NoCall
    /\ reading = NoRead
    /\ once = NoSnapshot
    /\ n_calls = 0
    /\ bare_foreign = FALSE
    /\ applied = <<>>

\* no actor call waits in a mailbox and no task is running
Quiescent == tasks = {} /\ \A g \in DOMAIN mailbox : mailbox[g] = <<>>

\* the edges of every store
Edges == [g \in DOMAIN stores |-> [local |-> stores[g].local, foreign |-> stores[g].foreign]]

\* a foreign_keys dict one of whose values is a bare key, not a collection
HasBareValue(foreign_keys) ==
    \E i \in 1..Len(foreign_keys.items) : foreign_keys.items[i].value.scalar

\* the manager call `call` has run and left the world w
Returns(w, call) ==
    /\ graph_dict' = w.graph_dict
    /\ transaction_id' = w.transaction_id
    /\ stores' = w.stores
    /\ mailbox' = w.mailbox
    /\ tasks' = w.tasks
    /\ last_call' = [call EXCEPT !.raised = w.raised]
    /\ once' = IF /\ call.op \in {"add_local_keys", "add_foreign_keys"}
                  /\ call = [last_call EXCEPT !.raised = "ok", !.read_since = FALSE]
                  /\ Quiescent
               THEN [taken |-> TRUE, edges |-> Edges]
               ELSE NoSnapshot
    /\ reading' = NoRead
    /\ n_calls' = n_calls + 1
    /\ bare_foreign' = (bare_foreign \/ (call.op = "insert" /\ HasBareValue(call.foreign_keys)))
    /\ applied' = [g \in DOMAIN w.stores |-> IF g \in DOMAIN applied THEN applied[g] ELSE <<>>]

CallCreateGraph(bound) ==
    /\ transaction_id < bound
    /\ reading.status # "waiting"
    /\ \E graph_id \in GraphIds \cup {None} :
          Returns(create_graph(World, graph_id, TRUE),
                  Call("create_graph", graph_id, K, Coll({}), Dict(<<>>), Empty, {}))

CallInsert(bound) ==
    /\ transaction_id < bound
    /\ reading.status # "waiting"
    /\ \E a \in InsertArgs, node \in Nodes :
          Returns(insert(World, a.graph_id, a.key, node, a.local_keys, a.foreign_keys),
                  Call("insert", a.graph_id, a.key, a.local_keys, a.foreign_keys, Empty, {}))

CallDeleteRow(bound) ==
    /\ transaction_id < bound
    /\ reading.status # "waiting"
    /\ \E a \in DeleteRowArgs :
          Returns(delete_row(World, a[1], a[2]),
                  Call("delete_row", a[1], a[2], Coll({}), Dict(<<>>), Empty, {}))

CallAddLocalKeys(bound) ==
    /\ transaction_id < bound
    /\ reading.status # "waiting"
    /\ \E a \in AddLocalKeysArgs :
          Returns(add_local_keys(World, a[1], a[2], a[3]),
                  Call("add_local_keys", a[1], a[2], Coll({}), Dict(<<>>), Empty, a[3]))

CallAddForeignKeys(bound) ==
    /\ transaction_id < bound
    /\ reading.status # "waiting"
    /\ \E a \in AddForeignKeysArgs :
          Returns(add_foreign_keys(World, a[1], a[2], a[3], a[4]),
                  Call("add_foreign_keys", a[1], a[2], Coll({}), Dict(<<>>), a[3], a[4]))

\* the reads of the caller: <<method, graph_id, key>>
ReadArgs ==
    {"node_exists", "select_row", "select_local_keys", "select_foreign_keys"}
        \X {G, H} \X Keys

\* the actor method a manager read forwards to
Forwarded(method) == IF method = "node_exists" THEN "row_exists" ELSE method

\* the reads resolving their graph as the writes do, by _create_if_not_exists
CallReadCreating ==
    /\ reading.status # "waiting"
    /\ \E a \in ReadArgs :
          LET r == [NoRead EXCEPT !.op = a[1], !.graph_id = a[2], !.key = a[3],
                                  !.immediate = ~last_call.read_since]
              w == create_if_not_exists(World, a[2])
              m == [op |-> Forwarded(a[1]), from |-> "caller", tid |-> transaction_id,
                    key |-> a[3]]
          IN /\ graph_dict' = w.graph_dict
             /\ stores' = w.stores
             /\ mailbox' = Send(w, w.graph_dict[a[2]], m).mailbox
             /\ reading' = [r EXCEPT !.status = "waiting"]
    /\ last_call' = [last_call EXCEPT !.read_since = TRUE]
    /\ applied' = [g \in DOMAIN stores' |-> IF g \in DOMAIN applied THEN applied[g] ELSE <<>>]
    /\ UNCHANGED <<transaction_id, tasks, once, n_calls, bare_foreign>>

\* node_exists, select_row, select_local_keys, select_foreign_keys: the call
\* is forwarded to the store and the caller waits for its reply (ray.get);
\* node_exists of an unknown graph is False, a select_* of one is a KeyError
CallRead ==
    /\ reading.status # "waiting"
    /\ \E a \in ReadArgs :
          LET r == [NoRead EXCEPT !.op = a[1], !.graph_id = a[2], !.key = a[3],
                                  !.immediate = ~last_call.read_since]
          IN IF a[2] \in DOMAIN graph_dict
             THEN /\ mailbox' = [mailbox EXCEPT ![graph_dict[a[2]]] =
                                    Append(@, [op |-> Forwarded(a[1]), from |-> "caller",
                                               tid |-> transaction_id, key |-> a[3]])]
                  /\ reading' = [r EXCEPT !.status = "waiting"]
             ELSE /\ mailbox' = mailbox
                  /\ reading' = IF a[1] = "node_exists"
                                THEN [r EXCEPT !.status = "returned", !.found = TRUE,
                                               !.value = FALSE]
                                ELSE [r EXCEPT !.status = "returned", !.raised = "KeyError"]
    /\ last_call' = [last_call EXCEPT !.read_since = TRUE]
    /\ UNCHANGED <<graph_dict, transaction_id, stores, tasks, once, n_calls, bare_foreign,
                   applied>>

\* the actor call a task sends for back_edge_key
BackEdge(t, back_edge_key) ==
    IF t.kind = "local"
    THEN [op |-> "add_local_keys", from |-> "task", tid |-> t.tid,
          key |-> back_edge_key, keys |-> {t.key}]
    ELSE [op |-> "add_foreign_keys", from |-> "task", tid |-> t.tid,
          key |-> back_edge_key, other_graph_id |-> t.graph_id, keys |-> {t.key}]

\* one iteration of the loop of a back-edge task; the task ends with its last.
\* The keys left are a set: a Python set is iterated in no specified order, and
\* the calls of one task for different keys commute at the store
TaskStep ==
    \E t \in tasks : \E back_edge_key \in t.keys :
        /\ mailbox' = [mailbox EXCEPT ![t.graph] = Append(@, BackEdge(t, back_edge_key))]
        /\ tasks' = (tasks \ {t}) \cup
                      (IF t.keys = {back_edge_key} THEN {}
                       ELSE {[t EXCEPT !.keys = @ \ {back_edge_key}]})
        /\ UNCHANGED <<graph_dict, transaction_id, stores, last_call, reading, once, n_calls,
                       bare_foreign, applied>>

\* what the history keeps of an executed write: its sender and its id
Executed(m) == [from |-> m.from, tid |-> m.tid]

\* a store executes the first actor call of its mailbox
StoreStep ==
    \E g \in DOMAIN mailbox :
        /\ mailbox[g] # <<>>
        /\ stores' = [stores EXCEPT ![g] = Apply(@, Head(mailbox[g]))]
        /\ mailbox' = [mailbox EXCEPT ![g] = Tail(@)]
        /\ reading' = IF Head(mailbox[g]).from = "caller"
                       THEN [reading EXCEPT !.status = "returned",
                                            !.found = ReadValue(stores[g], Head(mailbox[g]))[1],
                                            !.value = ReadValue(stores[g], Head(mailbox[g]))[2]]
                       ELSE reading
        /\ applied' = IF Head(mailbox[g]).from = "caller" THEN applied
                       ELSE [applied EXCEPT ![g] = Append(@, Executed(Head(mailbox[g])))]
        /\ UNCHANGED <<graph_dict, transaction_id, tasks, last_call, once, n_calls, bare_foreign>>

Next ==
    \/ CallCreateGraph(MaxCalls)
    \/ CallInsert(MaxCalls)
    \/ CallDeleteRow(MaxCalls)
    \/ CallAddLocalKeys(MaxCalls)
    \/ CallAddForeignKeys(MaxCalls)
    \/ TaskStep
    \/ StoreStep

Spec == Init /\ [][Next]_vars

\* ray runs every launched task and every actor executes its mailbox
FairSpec == Spec /\ WF_vars(TaskStep) /\ WF_vars(StoreStep)

\* the same manager, graphs and edges only being added
NextAdd ==
    \/ CallCreateGraph(MaxAddCalls)
    \/ CallAddLocalKeys(MaxAddCalls)
    \/ CallAddForeignKeys(MaxAddCalls)
    \/ TaskStep
    \/ StoreStep

SpecAdd == Init /\ [][NextAdd]_vars

\* the same manager, its caller reading between the calls
NextRead ==
    \/ CallCreateGraph(MaxReadCalls)
    \/ CallInsert(MaxReadCalls)
    \/ CallDeleteRow(MaxReadCalls)
    \/ CallAddLocalKeys(MaxReadCalls)
    \/ CallAddForeignKeys(MaxReadCalls)
    \/ CallRead
    \/ TaskStep
    \/ StoreStep

SpecRead == Init /\ [][NextRead]_vars

-----------------------------------------------------------------------------
(* The claims *)

\* every key a store can hold: the keys callers pass and their characters
KeyUniverse == Keys \cup UNION {IterStr(k) : k \in Keys}

\* the store of a registered graph id
StoreOf(graph_id) == stores[graph_dict[graph_id]]

\* the last call was a mutating call of this method that did not raise
Returned(method) == last_call.op = method /\ last_call.raised = "ok"

\* C1: at quiescence the local edges of every graph are symmetric: k2 is in
\* LocalEdgeSet(G, k1) exactly if k1 is in LocalEdgeSet(G, k2).
C1_LocalEdgesSymmetric ==
    Quiescent =>
        \A g \in DOMAIN graph_dict : \A k1, k2 \in KeyUniverse :
            k2 \in LocalEdgeSet(StoreOf(g), k1) <=> k1 \in LocalEdgeSet(StoreOf(g), k2)

\* C2: when every foreign key was supplied in a collection, at quiescence the
\* foreign edges between any two graphs are symmetric: k2 is in
\* ForeignEdgeMap(Ga, k1)[Gb] exactly if k1 is in ForeignEdgeMap(Gb, k2)[Ga].
C2_ForeignEdgesSymmetric ==
    (Quiescent /\ ~bare_foreign) =>
        \A ga, gb \in DOMAIN graph_dict : \A k1, k2 \in KeyUniverse :
            k2 \in ForeignBucket(StoreOf(ga), k1, gb)
                <=> k1 \in ForeignBucket(StoreOf(gb), k2, ga)

\* the last call was insert(g, k, v, foreign_keys={h: fk}) with fk a bare key,
\* and its propagation has completed
BareForeignInsertDone(g, k, h, fk) ==
    /\ Quiescent
    /\ Returned("insert")
    /\ last_call.graph_id = g
    /\ last_call.key = k
    /\ last_call.foreign_keys = Dict(<<Item(h, Scalar(fk))>>)

\* C3: once insert(G, k, v, foreign_keys={H: fk}) with a bare key fk has
\* propagated, H exists, fk is a foreign key of (G, k) for H and k is a foreign
\* key of (H, fk) for G; on a fresh manager these are the only such edges.
C3_BareForeignKeyMirrored ==
    \A g, h \in GraphIds \ {Empty} : \A k, fk \in Keys :
        BareForeignInsertDone(g, k, h, fk) =>
            /\ h \in DOMAIN graph_dict
            /\ fk \in ForeignBucket(StoreOf(g), k, h)
            /\ k \in ForeignBucket(StoreOf(h), fk, g)
            /\ transaction_id = 1 =>
                  /\ ForeignBucket(StoreOf(g), k, h) = {fk}
                  /\ \A x \in KeyUniverse \ {fk} : k \notin ForeignBucket(StoreOf(h), x, g)

\* the caller's read, issued right after the last mutating call returned, has
\* returned
ImmediateRead(method, graph_id, key) ==
    /\ reading.status = "returned"
    /\ reading.immediate
    /\ reading.op = method
    /\ reading.graph_id = graph_id
    /\ reading.key = key

\* C4: a read issued right after a mutating call returned observes the mirrored
\* edge: select_local_keys(G, k1) contains k2 after add_local_keys(G, k2, k1)
\* or insert(G, k2, v, local_keys=k1), and select_foreign_keys(H, fk)[G]
\* contains k1 after add_foreign_keys(G, k1, H, fk).
C4_ImmediateReadSeesBackEdge ==
    /\ \A k1 \in KeyUniverse :
          ( /\ ImmediateRead("select_local_keys", last_call.graph_id, k1)
            /\ \/ Returned("add_local_keys") /\ k1 \in last_call.keys
               \/ Returned("insert") /\ k1 \in last_call.local_keys.keys )
          => (reading.found /\ last_call.key \in reading.value)
    /\ \A fk \in KeyUniverse :
          ( /\ ImmediateRead("select_foreign_keys", last_call.other_graph_id, fk)
            /\ Returned("add_foreign_keys")
            /\ fk \in last_call.keys )
          => (reading.found /\ last_call.key \in Get(reading.value, last_call.graph_id, {}))

\* C5: a mutating call that names a graph id not in the registry creates the
\* store and proceeds: it never fails because the graph is unknown, and after a
\* call that returned, its graph and every graph it names are registered.
C5_UnknownGraphCreated ==
    ( /\ last_call.op \in {"insert", "delete_row", "add_local_keys", "add_foreign_keys"}
      /\ ~Falsy(last_call.graph_id)
      /\ last_call.foreign_keys.is_dict )
    => /\ last_call.raised # "KeyError"
       /\ last_call.graph_id \in DOMAIN graph_dict
       /\ last_call.raised = "ok" =>
             /\ \A i \in 1..Len(last_call.foreign_keys.items) :
                   last_call.foreign_keys.items[i].graph \in DOMAIN graph_dict
             /\ last_call.op = "add_foreign_keys" =>
                   last_call.other_graph_id \in DOMAIN graph_dict

\* C6: the transaction id is the number of mutating manager calls made so far:
\* every such call, raising or not, advances it by exactly 1, and nothing else
\* (a read, a task, a store, a lazy creation) changes it.
C6_TransactionIdCountsCalls ==
    [][ /\ transaction_id = n_calls
        /\ transaction_id' = n_calls'
        /\ transaction_id' \in {transaction_id, transaction_id + 1}
        /\ (transaction_id' = transaction_id + 1) <=> (n_calls' = n_calls + 1) ]_vars

\* C6 witness: two calls were made, the last raised, and the first created two
\* stores
C6_Witness ==
    /\ transaction_id = 2
    /\ last_call.raised = "InvalidName"
    /\ Len(stores) = 2
    /\ \E g \in DOMAIN mailbox : mailbox[g] # <<>>

\* C7: create_graph(name) raises InvalidName for an empty or absent name and
\* DuplicateName for a registered one, leaving the registry and the stores as
\* they were; otherwise it binds name, and only name, to a new store.
C7_CreateGraph ==
    [][ (n_calls' # n_calls /\ last_call'.op = "create_graph") =>
          LET name == last_call'.graph_id
          IN IF Falsy(name)
             THEN /\ last_call'.raised = "InvalidName"
                  /\ UNCHANGED <<graph_dict, stores, mailbox, tasks>>
             ELSE IF name \in DOMAIN graph_dict
             THEN /\ last_call'.raised = "DuplicateName"
                  /\ UNCHANGED <<graph_dict, stores, mailbox, tasks>>
             ELSE /\ last_call'.raised = "ok"
                  /\ DOMAIN graph_dict' = DOMAIN graph_dict \cup {name}
                  /\ \A g \in DOMAIN graph_dict : graph_dict'[g] = graph_dict[g]
                  /\ graph_dict'[name] \notin DOMAIN stores
                  /\ DOMAIN stores' = DOMAIN stores \cup {graph_dict'[name]}
                  /\ \A g \in DOMAIN stores : stores'[g] = stores[g]
                  /\ stores'[graph_dict'[name]] = NewGraph(transaction_id')
       ]_vars

\* C7 witness: create_graph of a registered name has raised DuplicateName
C7_Witness ==
    /\ last_call.op = "create_graph"
    /\ last_call.raised = "DuplicateName"
    /\ last_call.graph_id \in DOMAIN graph_dict

\* C8: insert with a foreign_keys that is not a mapping raises InvalidArgument
\* and changes nothing but the transaction counter: no store is created, no
\* message sent, no task launched.
C8_InsertNotADict ==
    [][ ( /\ n_calls' # n_calls
          /\ last_call'.op = "insert"
          /\ ~last_call'.foreign_keys.is_dict )
        => /\ last_call'.raised = "InvalidArgument"
           /\ transaction_id' = transaction_id + 1
           /\ UNCHANGED <<graph_dict, stores, mailbox, tasks>> ]_vars

\* C8 witness: insert into the unknown graph G has raised InvalidArgument
C8_Witness ==
    /\ last_call.op = "insert"
    /\ last_call.raised = "InvalidArgument"
    /\ last_call.graph_id \notin DOMAIN graph_dict

\* the last call was this add_local_keys, and its edge was sent to the store
RecordedLocal(a) ==
    /\ last_call.op = "add_local_keys"
    /\ <<last_call.graph_id, last_call.key, last_call.keys>> = a
    /\ last_call.raised # "KeyError"

\* the last call was this add_foreign_keys, and its edge was sent to the store
RecordedForeign(a) ==
    /\ last_call.op = "add_foreign_keys"
    /\ <<last_call.graph_id, last_call.key, last_call.other_graph_id, last_call.keys>> = a
    /\ last_call.raised # "KeyError"

\* key is a local key of back_edge_key in graph_id
MirroredLocal(graph_id, key, back_edge_key) ==
    /\ graph_id \in DOMAIN graph_dict
    /\ key \in LocalEdgeSet(StoreOf(graph_id), back_edge_key)

\* key of graph_id is a foreign key of back_edge_key in other_graph_id
MirroredForeign(graph_id, key, other_graph_id, back_edge_key) ==
    /\ other_graph_id \in DOMAIN graph_dict
    /\ key \in ForeignBucket(StoreOf(other_graph_id), back_edge_key, graph_id)

\* C9, local edges: every edge recorded by add_local_keys(G, k, k') is
\* eventually mirrored.
C9_LocalEventuallyMirrored ==
    \A a \in AddLocalKeysArgs : \A k \in a[3] :
        RecordedLocal(a) ~> MirroredLocal(a[1], a[2], k)

\* C9: every edge recorded by add_local_keys(G, k, k') is eventually mirrored
\* at k', and every edge recorded by add_foreign_keys(G, k, H, fk) is eventually
\* mirrored at fk in H.
C9_EventuallyMirrored ==
    /\ C9_LocalEventuallyMirrored
    /\ \A a \in AddForeignKeysArgs : \A fk \in a[4] :
          RecordedForeign(a) ~> MirroredForeign(a[1], a[2], a[3], fk)

\* C10: the same add_local_keys or add_foreign_keys call issued a second time
\* leaves, at quiescence, every local edge set and every foreign edge map as
\* they were at quiescence after the first.
C10_AddKeysIdempotent == (once.taken /\ Quiescent) => Edges = once.edges

\* C10 witness: a repeated add_* call that reached its store has propagated
C10_Witness ==
    /\ once.taken
    /\ Quiescent
    /\ last_call.raised = "ok"
    /\ \E g \in DOMAIN stores : stores[g].local # EmptyDict

\* this step is a mutating manager call (raising or not)
ManagerCallStep == n_calls' = n_calls + 1

\* this step is store g executing the first actor call of its mailbox
StoreStepAt(g) == mailbox[g] # <<>> /\ mailbox'[g] = Tail(mailbox[g])

\* C11: edges are only ever additive: no step of the manager, a task or a
\* store removes an element from any key's LocalEdgeSet or from any bucket of
\* any key's ForeignEdgeMap.
C11_EdgesOnlyAdditive ==
    [][ \A g \in DOMAIN stores : \A key \in KeyUniverse :
          /\ LocalEdgeSet(stores[g], key) \subseteq LocalEdgeSet(stores'[g], key)
          /\ \A other \in GraphIds :
                ForeignBucket(stores[g], key, other)
                    \subseteq ForeignBucket(stores'[g], key, other) ]_vars

ReadCallStep == n_calls' = n_calls /\ reading.status # "waiting" /\ reading' # reading

\* C13: reads never create or change anything: node_exists of a graph that is
\* not registered returns False at once, and node_exists and every select_*,
\* both the manager call and the store executing it, leave the registry, the
\* transaction counter, every store and the tasks as they were.
C13_ReadsDoNotMutate ==
    [][ /\ ReadCallStep =>
              /\ UNCHANGED <<graph_dict, transaction_id, stores, tasks>>
              /\ DOMAIN mailbox' = DOMAIN mailbox
              /\ (reading'.op = "node_exists" /\ reading'.graph_id \notin DOMAIN graph_dict)
                    => /\ reading'.status = "returned"
                       /\ reading'.raised = "ok"
                       /\ reading'.value = FALSE
                       /\ mailbox' = mailbox
        /\ \A g \in DOMAIN mailbox :
              (StoreStepAt(g) /\ Head(mailbox[g]).from = "caller")
                  => UNCHANGED <<graph_dict, transaction_id, stores, tasks>> ]_vars

\* C13 witness: with G registered, node_exists of the unknown graph H has
\* returned False
C13_Witness ==
    /\ reading.status = "returned"
    /\ reading.op = "node_exists"
    /\ reading.graph_id = H
    /\ reading.value = FALSE
    /\ DOMAIN graph_dict = {G}

\* C14: every name in the registry is non-empty, two names never share a
\* store, and no step removes a binding or binds a name to another store.
C14_RegistryInvariant ==
    [][ /\ \A g \in DOMAIN graph_dict' : ~Falsy(g)
        /\ \A g, h \in DOMAIN graph_dict' :
              graph_dict'[g] = graph_dict'[h] => g = h
        /\ \A g \in DOMAIN graph_dict :
              g \in DOMAIN graph_dict' /\ graph_dict'[g] = graph_dict[g] ]_vars

\* C14 witness: one call created two stores lazily, and create_graph of one of
\* their names has then raised DuplicateName
C14_Witness ==
    /\ transaction_id = 2
    /\ last_call.op = "create_graph"
    /\ last_call.raised = "DuplicateName"
    /\ DOMAIN graph_dict = {G, H}

\* the errors of input validation
ValidationErrors == {"InvalidName", "DuplicateName", "InvalidArgument"}

\* C15: a manager call that fails with an input-validation error has touched
\* no store: it has created none, sent no actor call and launched no task.
C15_ValidationBeforeStores ==
    [][ (ManagerCallStep /\ last_call'.raised \in ValidationErrors)
            => UNCHANGED <<graph_dict, stores, mailbox, tasks>> ]_vars

\* the actor calls that this step adds to the mailbox of store g
NewMessages(g) ==
    IF g \in DOMAIN mailbox
    THEN SubSeq(mailbox'[g], Len(mailbox[g]) + 1, Len(mailbox'[g]))
    ELSE mailbox'[g]

\* C16: every store operation carries the transaction id of the manager call
\* that caused it: a manager call stamps the stores it creates, the actor calls
\* it sends and the tasks it launches with the id it has just advanced to; a
\* task stamps each back-edge write with the id it was launched with, whatever
\* the counter has become; so no actor call sent to a store carries an id lower
\* than the stamp of that store.
C16_StampedWithOriginatingId ==
    [][ /\ ManagerCallStep =>
              /\ \A g \in DOMAIN stores' \ DOMAIN stores :
                    stores'[g].stamp = transaction_id'
              /\ \A g \in DOMAIN mailbox' : \A i \in DOMAIN NewMessages(g) :
                    NewMessages(g)[i].tid = transaction_id'
              /\ \A t \in tasks' \ tasks : t.tid = transaction_id'
        /\ ~ManagerCallStep =>
              \A g \in DOMAIN mailbox' : \A i \in DOMAIN NewMessages(g) :
                  /\ NewMessages(g)[i].from = "task"
                  /\ \E t \in tasks \ tasks' :
                        /\ t.graph = g
                        /\ t.tid = NewMessages(g)[i].tid
                        /\ NewMessages(g)[i].key \in t.keys
        /\ \A g \in DOMAIN mailbox' : \A i \in DOMAIN mailbox'[g] :
              /\ stores'[g].stamp <= mailbox'[g][i].tid
              /\ mailbox'[g][i].tid <= transaction_id' ]_vars

\* C16 witness: a back-edge write of the first call waits at a store that this
\* call created lazily, and a second call has advanced the counter
C16_Witness ==
    /\ transaction_id = 2
    /\ last_call.op # "create_graph"
    /\ \E g \in DOMAIN mailbox :
          /\ stores[g].stamp = 1
          /\ \E i \in DOMAIN mailbox[g] :
                mailbox[g][i].from = "task" /\ mailbox[g][i].tid = 1

\* the write add_local_keys(n, k) that mirrors a local edge of k at n
MirrorLocal(tid, n, k) ==
    [op |-> "add_local_keys", from |-> "task", tid |-> tid, key |-> n, keys |-> {k}]

\* the write add_foreign_keys(f, G, k) that mirrors a foreign edge of (G, k) at f
MirrorForeign(tid, f, graph_id, k) ==
    [op |-> "add_foreign_keys", from |-> "task", tid |-> tid, key |-> f,
     other_graph_id |-> graph_id, keys |-> {k}]

\* the mirrored writes a call owes, each with the store it is owed to
MirroredWrites(call, tid, registry) ==
    CASE call.op = "insert" ->
            {<<registry[call.graph_id], MirrorLocal(tid, n, call.key)>> :
                 n \in call.local_keys.keys}
            \cup UNION {{<<registry[call.foreign_keys.items[i].graph],
                           MirrorForeign(tid, f, call.graph_id, call.key)>> :
                             f \in call.foreign_keys.items[i].value.keys} :
                        i \in DOMAIN call.foreign_keys.items}
      [] call.op = "add_local_keys" ->
            {<<registry[call.graph_id], MirrorLocal(tid, n, call.key)>> : n \in call.keys}
      [] call.op = "add_foreign_keys" ->
            {<<registry[call.other_graph_id],
               MirrorForeign(tid, f, call.graph_id, call.key)>> : f \in call.keys}
      [] OTHER -> {}

\* the writes a set of tasks will send, each with the store it goes to
PendingWrites(ts) == UNION {{<<t.graph, BackEdge(t, k)>> : k \in t.keys} : t \in ts}

\* C17: propagation issues exactly the mirrored writes: the tasks a call that
\* returned has launched will send add_local_keys(n, k) to the store of G for
\* each neighbour n and add_foreign_keys(f, G, k) to the store of H for each
\* foreign key f of H, and nothing else; each step of a task sends one of these
\* writes to its store and no other message.
C17_ExactlyTheMirroredWrites ==
    [][ /\ (ManagerCallStep /\ last_call'.raised = "ok") =>
              PendingWrites(tasks' \ tasks)
                  = MirroredWrites(last_call', transaction_id', graph_dict')
        /\ ~ManagerCallStep =>
              \A g \in DOMAIN mailbox' : \A i \in DOMAIN NewMessages(g) :
                  /\ <<g, NewMessages(g)[i]>> \in PendingWrites(tasks)
                  /\ <<g, NewMessages(g)[i]>> \notin PendingWrites(tasks')
                  /\ Len(NewMessages(g)) = 1
                  /\ \A h \in DOMAIN mailbox' \ {g} : NewMessages(h) = <<>> ]_vars

\* C18: each store executes its actor calls one at a time in arrival order:
\* a step of a store executes the oldest call of its mailbox and only that one,
\* and every other step leaves what waits in a mailbox in place, adding behind
\* it; the writes the manager forwards itself are executed at any one store in
\* strictly increasing transaction-id order, and a write executed after one
\* with a higher transaction id is a back-edge write of a task.
C18_PrimariesInTransactionOrder ==
    [][ /\ \A g \in DOMAIN mailbox :
              IF StoreStepAt(g)
              THEN /\ applied'[g] = Append(applied[g], Executed(Head(mailbox[g])))
                   /\ \A h \in DOMAIN mailbox \ {g} :
                         /\ mailbox'[h] = mailbox[h]
                         /\ applied'[h] = applied[h]
                         /\ stores'[h] = stores[h]
              ELSE /\ SubSeq(mailbox'[g], 1, Len(mailbox[g])) = mailbox[g]
                   /\ applied'[g] = applied[g]
                   /\ stores'[g] = stores[g]
        /\ \A g \in DOMAIN applied' : \A i, j \in DOMAIN applied'[g] :
              i < j =>
                  /\ (applied'[g][i].from = "manager" /\ applied'[g][j].from = "manager")
                        => applied'[g][i].tid < applied'[g][j].tid
                  /\ applied'[g][i].tid > applied'[g][j].tid
                        => applied'[g][j].from = "task" ]_vars

\* C18 witness: a store has executed the writes of two manager calls in their
\* order and, after the second, a back-edge write of the first call
C18_Witness ==
    \E g \in DOMAIN applied : \E i, j, k \in DOMAIN applied[g] :
        /\ i < j /\ j < k
        /\ applied[g][i] = [from |-> "manager", tid |-> 1]
        /\ applied[g][j] = [from |-> "manager", tid |-> 2]
        /\ applied[g][k] = [from |-> "task", tid |-> 1]

\* the number of foreign keys the items of a foreign_keys dict name
RECURSIVE NamedForeignKeys(_)
NamedForeignKeys(items) ==
    IF items = <<>> THEN 0
    ELSE Cardinality(Head(items).value.keys) + NamedForeignKeys(Tail(items))

\* the number of neighbour and foreign keys a call names
NamedKeys(call) ==
    CASE call.op = "insert" ->
            Cardinality(call.local_keys.keys) + NamedForeignKeys(call.foreign_keys.items)
      [] call.op \in {"add_local_keys", "add_foreign_keys"} -> Cardinality(call.keys)
      [] OTHER -> 0

\* the actor calls that this step adds to the mailboxes, as <<store, position>>
AllNewMessages == UNION {{<<g, i>> : i \in DOMAIN NewMessages(g)} : g \in DOMAIN mailbox'}

\* C19, messages: a store that executes a write, a back-edge write included,
\* launches no task and sends nothing; a call of insert, delete_row,
\* add_local_keys or add_foreign_keys that returned and names n neighbour or
\* foreign keys has sent one write itself and left exactly n back-edge writes to
\* its tasks, and each step of a task sends one of them.
C19_NoCascadeExactlyNBackEdges ==
    [][ /\ (\E g \in DOMAIN mailbox : StoreStepAt(g)) =>
              tasks' = tasks /\ AllNewMessages = {}
        /\ ( /\ ManagerCallStep
             /\ last_call'.raised = "ok"
             /\ last_call'.op # "create_graph" ) =>
              /\ Cardinality(AllNewMessages) = 1
              /\ \A p \in AllNewMessages : NewMessages(p[1])[p[2]].from = "manager"
              /\ tasks \subseteq tasks'
              /\ Cardinality(PendingWrites(tasks' \ tasks)) = NamedKeys(last_call')
        /\ (~ManagerCallStep /\ tasks' # tasks) =>
              /\ Cardinality(AllNewMessages) = 1
              /\ Cardinality(PendingWrites(tasks')) = Cardinality(PendingWrites(tasks)) - 1
       ]_vars

\* C19, termination: when the stores and the tasks are scheduled fairly, the
\* system reaches a state with no pending actor call and no task.
C19_ReachesQuiescence == (~Quiescent) ~> Quiescent

\* C19: propagation does not cascade, a call that names n keys causes one
\* write of its own and exactly n back-edge writes, and the system reaches
\* quiescence.
C19_PropagationTerminates == C19_NoCascadeExactlyNBackEdges /\ C19_ReachesQuiescence

=============================================================================
